---- MODULE Spec2Model ----
(***************************************************************************)
(* Model of the NES 6502 emulator core: the flat 64K Ram behind the Bus    *)
(* trait (src/src/bus.rs) and the CPU fetch/decode/execute loop            *)
(* (src/src/cpu.rs).                                                       *)
(*                                                                         *)
(* Memory is [u8; 65536].  It is represented by the function that holds    *)
(* exactly its non-zero bytes; an address outside the function's domain    *)
(* reads 0.  The representation is canonical (a byte written as 0 leaves   *)
(* the domain), so two memories are equal iff their representations are.   *)
(***************************************************************************)
EXTENDS Integers, Sequences, FiniteSets, TLC

VARIABLES
    mem,              \* Ram.mem
    register_a,       \* CPU.register_a : u8
    register_x,       \* CPU.register_x : u8
    status,           \* CPU.status : u8
    program_counter,  \* CPU.program_counter : u16
    phase,            \* where the caller is: "idle", "loaded", "ready", "running", "returned", "panicked"
    panic,            \* payload of the panic that unwound the caller, if any
    prev,             \* the CPU and memory as they were when the last opcode was fetched
    at_run,           \* the CPU and memory as they were when run was called
    stored,           \* address |-> the byte the last STA of this run wrote there
    last_result,      \* the byte the last LDA, TAX or INX of this run wrote, -1 if none
    calls,            \* the write and load calls the caller has made on the Ram, in order
    nmi_pending,      \* an NMI has been requested of the CPU and not serviced
    irq_pending,      \* an IRQ has been requested of the CPU and not serviced
    legacy            \* the CPU of main.rs, the program given to its interpret, and how far it is

vars == <<mem, register_a, register_x, status, program_counter, phase, panic, prev, at_run,
          stored, last_result, calls, nmi_pending, irq_pending, legacy>>

----------------------------------------------------------------------------
(* Machine arithmetic *)

MEM_SIZE == 65536
Byte == 0..255

\* mutant of WrapU16: u16::saturating_add in place of wrapping_add
SaturateU16(n) == IF n >= MEM_SIZE THEN MEM_SIZE - 1 ELSE n % MEM_SIZE

\* u16::wrapping_add, and the `as u16` truncation of an i32
WrapU16(n) == n % MEM_SIZE

\* mutant of WrapU8: u8::saturating_add in place of wrapping_add
SaturateU8(n) == IF n > 255 THEN 255 ELSE n

\* u8::wrapping_add
WrapU8(n) == n % 256

\* `as i8` of a u8: reinterpretation of the same 8 bits in two's complement
AsI8(b) == IF b >= 128 THEN b - 256 ELSE b

\* the `&` operator on unsigned integers, bit by bit
RECURSIVE BitAnd(_, _)
BitAnd(a, b) ==
    IF a = 0 \/ b = 0 THEN 0
    ELSE (a % 2) * (b % 2) + 2 * BitAnd(a \div 2, b \div 2)

\* the `|` operator on unsigned integers, bit by bit
RECURSIVE BitOr(_, _)
BitOr(a, b) ==
    IF a = 0 THEN b
    ELSE IF b = 0 THEN a
    ELSE (IF a % 2 = 1 \/ b % 2 = 1 THEN 1 ELSE 0) + 2 * BitOr(a \div 2, b \div 2)

\* `hi << 8` on a u16 that holds a byte
Shl8(hi) == WrapU16(hi * 256)

----------------------------------------------------------------------------
(* Bus / Ram (src/src/bus.rs) *)

\* Ram::new: every byte zero
RamNew == << >>

\* <Ram as Bus>::read
BusRead(m, addr) == IF addr \in DOMAIN m THEN m[addr] ELSE 0

\* mutant of BusWrite: the store is 16 bits wide, data lands at addr and addr + 1
BusWriteWord(m, addr, data) ==
    LET both == {addr, (addr + 1) % MEM_SIZE}
    IN  IF data = 0
        THEN [a \in (DOMAIN m) \ both |-> m[a]]
        ELSE [a \in (DOMAIN m) \cup both |-> IF a \in both THEN data ELSE m[a]]

\* <Ram as Bus>::write: self.mem[addr as usize] = data
BusWrite(m, addr, data) ==
    IF data = 0
    THEN [a \in (DOMAIN m) \ {addr} |-> m[a]]
    ELSE [a \in (DOMAIN m) \cup {addr} |-> IF a = addr THEN data ELSE m[a]]

\* mutant of CopyFromSlice: the slice copied is one byte short (mem[start..end-1])
RECURSIVE CopyAllButLast(_, _, _)
CopyAllButLast(m, start, program) ==
    IF Len(program) <= 1 THEN m
    ELSE CopyAllButLast(BusWrite(m, start, Head(program)), start + 1, Tail(program))

\* copy_from_slice into mem[start..end], one byte after another
RECURSIVE CopyFromSlice(_, _, _)
CopyFromSlice(m, start, program) ==
    IF program = << >> THEN m
    ELSE CopyFromSlice(BusWrite(m, start, Head(program)), start + 1, Tail(program))

----------------------------------------------------------------------------
(* CPU helpers (src/src/cpu.rs) *)

ZERO_FLAG == 2
NEGATIVE_FLAG == 128
CARRY_FLAG == 1

\* mutant of update_zero_and_negative_flags: the else branch that clears the
\* Zero flag is missing
update_flags_zero_never_cleared(st, result) ==
    LET z == IF result = 0 THEN BitOr(st, ZERO_FLAG) ELSE st
    IN  IF BitAnd(result, NEGATIVE_FLAG) # 0
        THEN BitOr(z, NEGATIVE_FLAG)
        ELSE BitAnd(z, 127)

\* mutant of update_zero_and_negative_flags: clearing Zero also clears Carry
\* (mask 0b1111_1100)
update_flags_clears_carry(st, result) ==
    LET z == IF result = 0
             THEN BitOr(st, ZERO_FLAG)
             ELSE BitAnd(st, 252)
    IN  IF BitAnd(result, NEGATIVE_FLAG) # 0
        THEN BitOr(z, NEGATIVE_FLAG)
        ELSE BitAnd(z, 127)

\* CPU::update_zero_and_negative_flags, as a function of the old status
update_zero_and_negative_flags(st, result) ==
    LET z == IF result = 0
             THEN BitOr(st, ZERO_FLAG)
             ELSE BitAnd(st, 253)
    IN  IF BitAnd(result, NEGATIVE_FLAG) # 0
        THEN BitOr(z, NEGATIVE_FLAG)
        ELSE BitAnd(z, 127)

\* mutant of branch: the offset is zero-extended (`as u8 as i32`) instead of
\* sign-extended
branch_zero_extended(pc, offset) == WrapU16(pc + WrapU8(offset))

\* CPU::branch: i32 addition, truncated to u16
branch(pc, offset) == WrapU16(pc + offset)

\* mutant of AbsoluteOperand: the two operand bytes are combined big-endian
AbsoluteOperandBigEndian(m, pc) ==
    LET lo == BusRead(m, WrapU16(pc + 1))
        hi == BusRead(m, WrapU16(pc + 2))
    IN  BitOr(Shl8(lo), hi)

\* the little-endian operand of a three-byte instruction at pc
AbsoluteOperand(m, pc) ==
    LET lo == BusRead(m, WrapU16(pc + 1))
        hi == BusRead(m, WrapU16(pc + 2))
    IN  BitOr(Shl8(hi), lo)

----------------------------------------------------------------------------
(* Opcodes decoded by CPU::run *)

OP_LDA_IMM == 169   \* 0xA9
OP_LDA_ABS == 173   \* 0xAD
OP_TAX     == 170   \* 0xAA
OP_INX     == 232   \* 0xE8
OP_STA_ABS == 141   \* 0x8D
OP_JMP_ABS == 76    \* 0x4C
OP_BEQ     == 240   \* 0xF0
OP_BNE     == 208   \* 0xD0
OP_BCC     == 144   \* 0x90
OP_BCS     == 176   \* 0xB0
OP_BMI     == 48    \* 0x30
OP_BPL     == 16    \* 0x10
OP_BRK     == 0     \* 0x00

BranchOpcodes == {OP_BEQ, OP_BNE, OP_BCC, OP_BCS, OP_BMI, OP_BPL}

\* the arms of the match in CPU::run; every other byte falls to the `_` arm
SupportedOpcodes ==
    {OP_LDA_IMM, OP_LDA_ABS, OP_TAX, OP_INX, OP_STA_ABS, OP_JMP_ABS, OP_BRK}
        \cup BranchOpcodes

----------------------------------------------------------------------------
(* Inputs: the memory images and register presets a caller hands to run *)

\* longest generated program, in instructions
MaxInstr == 1

\* operand bytes of the generated two-byte instructions:
\* zero, a small positive value, the largest positive value, the most negative
\* value, and -2
OperandBytes == {0, 2, 127, 128, 254}

\* absolute operands <<lo, hi>> of the generated three-byte instructions:
\* $1234, $0000 and $0003
AbsOperands == {<<52, 18>>, <<0, 0>>, <<3, 0>>}

\* 0x02 stands for the opcodes CPU::run does not decode
Instructions ==
    {<<OP_TAX>>, <<OP_INX>>, <<OP_BRK>>, <<2>>}
        \cup {<<op, b>> : op \in {OP_LDA_IMM} \cup BranchOpcodes, b \in OperandBytes}
        \cup {<<op>> \o w : op \in {OP_LDA_ABS, OP_STA_ABS, OP_JMP_ABS}, w \in AbsOperands}

RECURSIVE InstrSeqs(_)
InstrSeqs(n) ==
    IF n = 0 THEN {<< >>}
    ELSE LET shorter == InstrSeqs(n - 1)
         IN  shorter \cup {i \o s : i \in Instructions, s \in shorter}

\* the programs of the unit tests of cpu.rs
TestPrograms ==
    { <<169, 0, 0>>, <<169, 128, 0>>, <<169, 127, 170, 0>>, <<169, 0, 170, 0>>,
      <<232, 0>>, <<141, 52, 18, 0>>, <<173, 0, 32, 0>>,
      <<76, 5, 0, 169, 1, 169, 66, 0>>,
      <<240, 2, 0>>, <<208, 2, 0>>, <<144, 2, 0>>, <<176, 2, 0>>,
      <<48, 2, 0>>, <<16, 2, 0>> }

\* LDA #v; TAX; INX; BRK for every immediate byte (tests/cpu_bus_integration.rs)
EndToEndProgram(v) == <<OP_LDA_IMM, v, OP_TAX, OP_INX, OP_BRK>>

\* BEQ and BNE with every displacement byte
BranchSweep == {<<op, d>> : op \in {OP_BEQ, OP_BNE}, d \in Byte}

\* JSR $0005; BRK; BRK; RTS: a call of the subroutine at address 5
SubroutineProgram == <<32, 5, 0, 0, 0, 96>>

\* INX; BCC +2; BRK and INX; BCS +2; BRK: a carry branch after a flag update
CarryPrograms == {<<232, 144, 2, 0>>, <<232, 176, 2, 0>>}

Programs ==
    InstrSeqs(MaxInstr) \cup TestPrograms \cup BranchSweep
        \cup {EndToEndProgram(v) : v \in Byte} \cup {SubroutineProgram}
        \cup CarryPrograms

\* where an image is loaded and where run starts: the bottom of memory, and
\* three and two bytes below the top ($FFFD, $FFFE)
StartAddrs == {0, 65533, 65534}

\* the one data byte a caller may write before loading (cpu.rs tests write 0x99),
\* at $1234 or $2000
WriteAddrs == {4660, 8192}
WriteData == {153}

RegAValues == {0, 66, 128}
RegXValues == {0, 127, 255}
\* nothing set; all but Zero and Negative set; only Zero and Negative set; all set
StatusValues == {0, 125, 130, 255}

----------------------------------------------------------------------------
(* State *)

NoPanic == [kind |-> "none"]

\* no opcode fetched yet
NoFetch == [opcode |-> -1, pc |-> 0, a |-> 0, x |-> 0, status |-> 0, mem |-> RamNew]

\* the state in which the opcode at program_counter is fetched
Fetched ==
    [opcode |-> BusRead(mem, program_counter), pc |-> program_counter,
     a |-> register_a, x |-> register_x, status |-> status, mem |-> mem]

\* CPU::new() of main.rs, before interpret is called
LegacyNew ==
    [phase |-> "idle", program |-> << >>, register_a |-> 0, register_x |-> 0,
     status |-> 0, program_counter |-> 0, panic |-> "none"]

\* Ram::new() and CPU::new()
Init ==
    /\ mem = RamNew
    /\ register_a = 0
    /\ register_x = 0
    /\ status = 0
    /\ program_counter = 0
    /\ phase = "idle"
    /\ panic = NoPanic
    /\ prev = NoFetch
    /\ at_run = NoFetch
    /\ stored = << >>
    /\ last_result = -1
    /\ calls = << >>
    /\ nmi_pending = FALSE
    /\ irq_pending = FALSE
    /\ legacy = LegacyNew

----------------------------------------------------------------------------
(* The caller: Bus::write, Ram::load, the public fields, CPU::run *)

\* ram.write(addr, data), called before run
Write(addr, data) ==
    /\ phase \in {"idle", "loaded"}
    /\ mem' = BusWrite(mem, addr, data)
    /\ calls' = Append(calls, [op |-> "write", addr |-> addr, bytes |-> <<data>>])
    /\ UNCHANGED <<register_a, register_x, status, program_counter, phase, panic, prev, at_run>>
    /\ UNCHANGED <<stored, last_result, nmi_pending, irq_pending, legacy>>

\* Ram::load: the slice mem[start..end] panics when end exceeds the array
Load(start_addr, program) ==
    /\ phase \in {"idle", "loaded"}
    /\ LET end == start_addr + Len(program)
       IN  IF end > MEM_SIZE
           THEN /\ phase' = "panicked"
                /\ panic' = [kind |-> "slice_index", end |-> end]
                /\ UNCHANGED mem
           ELSE /\ phase' = "loaded"
                /\ mem' = CopyFromSlice(mem, start_addr, program)
                /\ UNCHANGED panic
    /\ calls' = Append(calls, [op |-> "load", addr |-> start_addr, bytes |-> program])
    /\ UNCHANGED <<register_a, register_x, status, program_counter, prev, at_run>>
    /\ UNCHANGED <<stored, last_result, nmi_pending, irq_pending, legacy>>

\* the caller assigns the public fields of the CPU before run; the entry point
\* is address 0, as in every test, or a start address that holds an image
Preset(a, x, st, pc) ==
    /\ phase = "loaded"
    /\ pc = 0 \/ BusRead(mem, pc) # 0
    /\ phase' = "ready"
    /\ register_a' = a
    /\ register_x' = x
    /\ status' = st
    /\ program_counter' = pc
    /\ UNCHANGED <<mem, panic, prev, at_run, stored, last_result, calls, nmi_pending, irq_pending, legacy>>

\* cpu.run(&mut ram) is entered
Run ==
    /\ phase \in {"loaded", "ready"}
    /\ phase' = "running"
    /\ at_run' = [Fetched EXCEPT !.opcode = -1]
    /\ UNCHANGED <<mem, register_a, register_x, status, program_counter, panic, prev>>
    /\ UNCHANGED <<stored, last_result, calls, nmi_pending, irq_pending, legacy>>

----------------------------------------------------------------------------
(* One iteration of the loop of CPU::run, by the arm that the opcode selects *)

Fetch(op) ==
    /\ phase = "running"
    /\ BusRead(mem, program_counter) = op
    /\ prev' = Fetched
    /\ UNCHANGED <<at_run, calls, nmi_pending, irq_pending, legacy>>

LdaImmediate ==
    /\ Fetch(OP_LDA_IMM)
    /\ LET value == BusRead(mem, WrapU16(program_counter + 1))
       IN  /\ program_counter' = WrapU16(program_counter + 2)
           /\ register_a' = value
           /\ status' = update_zero_and_negative_flags(status, register_a')
           /\ last_result' = register_a'
    /\ UNCHANGED <<mem, register_x, phase, panic, stored>>

LdaAbsolute ==
    /\ Fetch(OP_LDA_ABS)
    /\ LET addr == AbsoluteOperand(mem, program_counter)
           value == BusRead(mem, addr)
       IN  /\ program_counter' = WrapU16(program_counter + 3)
           /\ register_a' = value
           /\ status' = update_zero_and_negative_flags(status, register_a')
           /\ last_result' = register_a'
    /\ UNCHANGED <<mem, register_x, phase, panic, stored>>

\* mutant of Tax: program_counter is not advanced past the opcode
TaxWithoutAdvance ==
    /\ Fetch(OP_TAX)
    /\ register_x' = register_a
    /\ status' = update_zero_and_negative_flags(status, register_x')
    /\ last_result' = register_x'
    /\ UNCHANGED <<mem, register_a, program_counter, phase, panic, stored>>

Tax ==
    /\ Fetch(OP_TAX)
    /\ program_counter' = WrapU16(program_counter + 1)
    /\ register_x' = register_a
    /\ status' = update_zero_and_negative_flags(status, register_x')
    /\ last_result' = register_x'
    /\ UNCHANGED <<mem, register_a, phase, panic, stored>>

\* mutant of Inx: the flags are not updated after the increment
InxWithoutFlags ==
    /\ Fetch(OP_INX)
    /\ program_counter' = WrapU16(program_counter + 1)
    /\ register_x' = WrapU8(register_x + 1)
    /\ last_result' = register_x'
    /\ UNCHANGED <<mem, register_a, status, phase, panic, stored>>

Inx ==
    /\ Fetch(OP_INX)
    /\ program_counter' = WrapU16(program_counter + 1)
    /\ register_x' = WrapU8(register_x + 1)
    /\ status' = update_zero_and_negative_flags(status, register_x')
    /\ last_result' = register_x'
    /\ UNCHANGED <<mem, register_a, phase, panic, stored>>

\* mutant of StaAbsolute: register_x is stored instead of register_a
StaAbsoluteStoresX ==
    /\ Fetch(OP_STA_ABS)
    /\ LET addr == AbsoluteOperand(mem, program_counter)
       IN  /\ mem' = BusWrite(mem, addr, register_x)
           /\ stored' = [a \in (DOMAIN stored) \cup {addr} |->
                             IF a = addr THEN register_a ELSE stored[a]]
    /\ program_counter' = WrapU16(program_counter + 3)
    /\ UNCHANGED <<register_a, register_x, status, phase, panic, last_result>>

\* mutant of StaAbsolute: the store also updates Zero and Negative from register_a
StaAbsoluteUpdatesFlags ==
    /\ Fetch(OP_STA_ABS)
    /\ LET addr == AbsoluteOperand(mem, program_counter)
       IN  /\ mem' = BusWrite(mem, addr, register_a)
           /\ stored' = [a \in (DOMAIN stored) \cup {addr} |->
                             IF a = addr THEN register_a ELSE stored[a]]
    /\ program_counter' = WrapU16(program_counter + 3)
    /\ status' = update_zero_and_negative_flags(status, register_a)
    /\ UNCHANGED <<register_a, register_x, phase, panic, last_result>>

StaAbsolute ==
    /\ Fetch(OP_STA_ABS)
    /\ LET addr == AbsoluteOperand(mem, program_counter)
       IN  /\ mem' = BusWrite(mem, addr, register_a)
           /\ stored' = [a \in (DOMAIN stored) \cup {addr} |->
                             IF a = addr THEN register_a ELSE stored[a]]
    /\ program_counter' = WrapU16(program_counter + 3)
    /\ UNCHANGED <<register_a, register_x, status, phase, panic, last_result>>

\* mutant of JmpAbsolute: program_counter is advanced past the instruction
\* after the jump
JmpAbsoluteThenAdvance ==
    /\ Fetch(OP_JMP_ABS)
    /\ program_counter' = WrapU16(AbsoluteOperand(mem, program_counter) + 3)
    /\ UNCHANGED <<mem, register_a, register_x, status, phase, panic, stored, last_result>>

JmpAbsolute ==
    /\ Fetch(OP_JMP_ABS)
    /\ program_counter' = AbsoluteOperand(mem, program_counter)
    /\ UNCHANGED <<mem, register_a, register_x, status, phase, panic, stored, last_result>>

\* mutant of BranchCondition: BCC and BCS test the Carry flag the wrong way round
BranchConditionCarrySwapped(op, st) ==
    CASE op = OP_BEQ -> BitAnd(st, ZERO_FLAG) # 0
      [] op = OP_BNE -> BitAnd(st, ZERO_FLAG) = 0
      [] op = OP_BCC -> BitAnd(st, CARRY_FLAG) # 0
      [] op = OP_BCS -> BitAnd(st, CARRY_FLAG) = 0
      [] op = OP_BMI -> BitAnd(st, NEGATIVE_FLAG) # 0
      [] op = OP_BPL -> BitAnd(st, NEGATIVE_FLAG) = 0

\* the condition each branch arm tests on status
BranchCondition(op, st) ==
    CASE op = OP_BEQ -> BitAnd(st, ZERO_FLAG) # 0
      [] op = OP_BNE -> BitAnd(st, ZERO_FLAG) = 0
      [] op = OP_BCC -> BitAnd(st, CARRY_FLAG) = 0
      [] op = OP_BCS -> BitAnd(st, CARRY_FLAG) # 0
      [] op = OP_BMI -> BitAnd(st, NEGATIVE_FLAG) # 0
      [] op = OP_BPL -> BitAnd(st, NEGATIVE_FLAG) = 0

\* the body shared by the six branch arms
BranchArm(op) ==
    /\ Fetch(op)
    /\ LET offset == AsI8(BusRead(mem, WrapU16(program_counter + 1)))
           next == WrapU16(program_counter + 2)
       IN  program_counter' = IF BranchCondition(op, status)
                              THEN branch(next, offset)
                              ELSE next
    /\ UNCHANGED <<mem, register_a, register_x, status, phase, panic, stored, last_result>>

Beq == BranchArm(OP_BEQ)
Bne == BranchArm(OP_BNE)
Bcc == BranchArm(OP_BCC)
Bcs == BranchArm(OP_BCS)
Bmi == BranchArm(OP_BMI)
Bpl == BranchArm(OP_BPL)

\* the 0x00 arm: return
\* mutant of Brk: the arm steps over the BRK byte before it returns
BrkAdvancesPc ==
    /\ Fetch(OP_BRK)
    /\ program_counter' = WrapU16(program_counter + 1)
    /\ phase' = "returned"
    /\ UNCHANGED <<mem, register_a, register_x, status, panic, stored, last_result>>

Brk ==
    /\ Fetch(OP_BRK)
    /\ phase' = "returned"
    /\ UNCHANGED <<mem, register_a, register_x, status, program_counter, panic, stored, last_result>>

\* the `_` arm: panic!("Opcode {:#x} not implemented", opcode)
Unimplemented ==
    /\ phase = "running"
    /\ BusRead(mem, program_counter) \notin SupportedOpcodes
    /\ prev' = Fetched
    /\ UNCHANGED <<at_run, stored, last_result, calls, nmi_pending, irq_pending, legacy>>
    /\ phase' = "panicked"
    /\ panic' = [kind |-> "not_implemented", opcode |-> BusRead(mem, program_counter)]
    /\ UNCHANGED <<mem, register_a, register_x, status, program_counter>>

----------------------------------------------------------------------------

\* the caller's operations, with their arguments drawn from the input sets
\* (the tests write at most one data byte, and before they load)
CallWrite ==
    /\ phase = "idle"
    /\ mem = RamNew
    /\ \E addr \in WriteAddrs, data \in WriteData : Write(addr, data)

CallLoad ==
    /\ phase = "idle"
    /\ \E start_addr \in StartAddrs, program \in Programs : Load(start_addr, program)

CallPreset ==
    /\ phase = "loaded"
    /\ \E a \in RegAValues, x \in RegXValues, st \in StatusValues, pc \in StartAddrs :
           Preset(a, x, st, pc)

Next ==
    \/ CallWrite
    \/ CallLoad
    \/ CallPreset
    \/ Run
    \/ LdaImmediate
    \/ LdaAbsolute
    \/ Tax
    \/ Inx
    \/ StaAbsolute
    \/ JmpAbsolute
    \/ Beq
    \/ Bne
    \/ Bcc
    \/ Bcs
    \/ Bmi
    \/ Bpl
    \/ Brk
    \/ Unimplemented

Spec == Init /\ [][Next]_vars

\* one iteration of the loop of CPU::run, whichever arm the opcode selects
Iteration ==
    \/ LdaImmediate
    \/ LdaAbsolute
    \/ Tax
    \/ Inx
    \/ StaAbsolute
    \/ JmpAbsolute
    \/ Beq
    \/ Bne
    \/ Bcc
    \/ Bcs
    \/ Bmi
    \/ Bpl
    \/ Brk
    \/ Unimplemented

\* run is a blocking loop: while it has not returned or panicked, the next
\* iteration happens
\* a caller that loads a program into zeroed memory, sets the registers and runs
NextFair ==
    \/ CallLoad
    \/ CallPreset
    \/ Run
    \/ LdaImmediate
    \/ LdaAbsolute
    \/ Tax
    \/ Inx
    \/ StaAbsolute
    \/ JmpAbsolute
    \/ Beq
    \/ Bne
    \/ Bcc
    \/ Bcs
    \/ Bmi
    \/ Bpl
    \/ Brk
    \/ Unimplemented

SpecFair == Init /\ [][NextFair]_vars /\ WF_vars(Iteration)

----------------------------------------------------------------------------
(* A caller that requests interrupts before it calls run *)

\* trigger_nmi(): latch a request for the next loop iteration
TriggerNmi ==
    /\ phase = "loaded"
    /\ ~nmi_pending
    /\ nmi_pending' = TRUE
    /\ UNCHANGED <<mem, register_a, register_x, status, program_counter, phase, panic,
                   prev, at_run, stored, last_result, calls, irq_pending, legacy>>

\* trigger_irq(): latch a request for the next loop iteration
TriggerIrq ==
    /\ phase = "loaded"
    /\ ~irq_pending
    /\ irq_pending' = TRUE
    /\ UNCHANGED <<mem, register_a, register_x, status, program_counter, phase, panic,
                   prev, at_run, stored, last_result, calls, nmi_pending, legacy>>

\* the low bytes of the NMI vector ($FFFA) and of the IRQ vector ($FFFE)
VectorAddrs == {65530, 65534}

\* the caller points a vector at address 5
WriteVector ==
    /\ phase = "idle"
    /\ mem = RamNew
    /\ \E addr \in VectorAddrs : Write(addr, 5)

\* the caller loads one instruction at address 0
LoadInstruction ==
    /\ phase = "idle"
    /\ \E program \in Instructions : Load(0, program)

NextLatch ==
    \/ WriteVector
    \/ LoadInstruction
    \/ TriggerNmi
    \/ TriggerIrq
    \/ Run
    \/ LdaImmediate
    \/ LdaAbsolute
    \/ Tax
    \/ Inx
    \/ StaAbsolute
    \/ JmpAbsolute
    \/ Beq
    \/ Bne
    \/ Bcc
    \/ Bcs
    \/ Bmi
    \/ Bpl
    \/ Brk
    \/ Unimplemented

SpecLatch == Init /\ [][NextLatch]_vars

----------------------------------------------------------------------------
(* A caller that places an instruction across the top of memory *)

\* the opcodes placed at $FFFF or $FFFE: every supported one but BRK, and 0x02
TopOpcodes == (SupportedOpcodes \ {OP_BRK}) \cup {2}

\* the bytes loaded at address 0: the operands of an opcode at $FFFF
BottomImages == {<<2>>, <<128>>, <<254>>, <<52, 18>>, <<255, 255>>}

\* the low operand byte beside an opcode at $FFFE, and the high byte at address 0
TopLows == {2, 52, 254}
BottomHighs == {18, 255}

\* the opcode is written at $FFFF
WriteOpcodeAtTop ==
    /\ phase = "idle"
    /\ mem = RamNew
    /\ \E op \in TopOpcodes : Write(65535, op)

\* its operands are loaded at address 0
LoadOperandsAtBottom ==
    /\ phase = "idle"
    /\ BusRead(mem, 65535) # 0
    /\ \E image \in BottomImages : Load(0, image)

\* the opcode and its first operand byte are loaded at $FFFE
LoadAtTop ==
    /\ phase = "idle"
    /\ mem = RamNew
    /\ \E op \in TopOpcodes, lo \in TopLows : Load(65534, <<op, lo>>)

\* the second operand byte is written at address 0
WriteHighAtBottom ==
    /\ phase = "loaded"
    /\ BusRead(mem, 65534) # 0
    /\ BusRead(mem, 0) = 0
    /\ \E hi \in BottomHighs : Write(0, hi)

\* the caller points program_counter at the opcode
PresetAtTop ==
    /\ phase = "loaded"
    /\ \E a \in RegAValues, x \in RegXValues, st \in StatusValues, pc \in {65534, 65535} :
           Preset(a, x, st, pc)

NextWrap ==
    \/ WriteOpcodeAtTop
    \/ LoadOperandsAtBottom
    \/ LoadAtTop
    \/ WriteHighAtBottom
    \/ PresetAtTop
    \/ Run
    \/ LdaImmediate
    \/ LdaAbsolute
    \/ Tax
    \/ Inx
    \/ StaAbsolute
    \/ JmpAbsolute
    \/ Beq
    \/ Bne
    \/ Bcc
    \/ Bcs
    \/ Bmi
    \/ Bpl
    \/ Brk
    \/ Unimplemented

SpecWrap == Init /\ [][NextWrap]_vars

----------------------------------------------------------------------------
(* CPU::interpret of main.rs, the interpreter that reads its program from a Vec *)

\* everything but the CPU of main.rs
engine == <<mem, register_a, register_x, status, program_counter, phase, panic, prev,
            at_run, stored, last_result, calls, nmi_pending, irq_pending>>

\* `self.program_counter += 1` on a u16: past 0xFFFF a build with overflow checks
\* panics (-1 here), a build without them wraps to 0
Increment(pc, checked) ==
    IF pc + 1 < MEM_SIZE THEN pc + 1 ELSE IF checked THEN -1 ELSE 0

\* the two flag updates written out in the 0xA9 and 0xAA arms of interpret
legacy_update_flags(st, value) ==
    LET z == IF value = 0
             THEN BitOr(st, 2)
             ELSE BitAnd(st, 253)
    IN  IF BitAnd(value, 128) # 0
        THEN BitOr(z, 128)
        ELSE BitAnd(z, 127)

\* interpret panics: the Vec index is out of bounds, the u16 addition overflows,
\* or todo!() is reached
LegacyPanic(cpu, kind) == [cpu EXCEPT !.phase = "panicked", !.panic = kind]

\* the 0xA9 arm of interpret, program_counter being pc1 after the opcode fetch
LegacyLda(program, cpu, pc1, checked) ==
    IF pc1 >= Len(program)
    THEN LegacyPanic([cpu EXCEPT !.program_counter = pc1], "index_out_of_bounds")
    ELSE LET param == program[pc1 + 1]
             pc2 == Increment(pc1, checked)
         IN  IF pc2 = -1
             THEN LegacyPanic([cpu EXCEPT !.program_counter = pc1], "add_overflow")
             ELSE [cpu EXCEPT !.program_counter = pc2,
                              !.register_a = param,
                              !.status = legacy_update_flags(cpu.status, param)]

\* the 0xAA arm of interpret
LegacyTax(cpu, pc1) ==
    [cpu EXCEPT !.program_counter = pc1,
                !.register_x = cpu.register_a,
                !.status = legacy_update_flags(cpu.status, cpu.register_a)]

\* one pass of the loop of interpret; a CPU that has returned or panicked stays
\* as it is
LegacyIteration(program, cpu, checked) ==
    IF cpu.phase # "running" THEN cpu
    ELSE IF cpu.program_counter >= Len(program)
    THEN LegacyPanic(cpu, "index_out_of_bounds")
    ELSE LET opscode == program[cpu.program_counter + 1]
             pc1 == Increment(cpu.program_counter, checked)
         IN  IF pc1 = -1 THEN LegacyPanic(cpu, "add_overflow")
             ELSE CASE opscode = 169 -> LegacyLda(program, cpu, pc1, checked)
                    [] opscode = 0 ->
                           [cpu EXCEPT !.program_counter = pc1, !.phase = "returned"]
                    [] opscode = 170 -> LegacyTax(cpu, pc1)
                    [] OTHER ->
                           LegacyPanic([cpu EXCEPT !.program_counter = pc1], "todo")

\* up to n passes of the loop, the first half of them and then, unless interpret
\* has returned or panicked, the rest
RECURSIVE LegacyLoop(_, _, _, _)
LegacyLoop(program, cpu, checked, n) ==
    IF n = 0 THEN cpu
    ELSE IF n = 1 THEN LegacyIteration(program, cpu, checked)
    ELSE LET half == LegacyLoop(program, cpu, checked, n \div 2)
         IN  IF half.phase # "running" THEN half
             ELSE LegacyLoop(program, half, checked, n - (n \div 2))

\* cpu.interpret(program), from entry to return or panic, on a CPU whose fields
\* the caller has set: every pass but a wrapped one consumes at least one byte,
\* so Len(program) + 1 passes reach the BRK of a program that has one
Interpret(program, a, x, st) ==
    /\ legacy.phase = "idle"
    /\ \E checked \in BOOLEAN :
           legacy' = LegacyLoop(program,
                                [phase |-> "running", program |-> program,
                                 register_a |-> a, register_x |-> x, status |-> st,
                                 program_counter |-> 0, panic |-> "none"],
                                checked, Len(program) + 1)
    /\ UNCHANGED engine

\* how many instructions precede the BRK of a short program
MaxLegacyInstr == 2

\* LDA #v and TAX, the instructions both interpreters decode
LegacyInstructions == {<<169, v>> : v \in {0, 5, 128}} \cup {<<170>>}

RECURSIVE LegacyInstrSeqs(_)
LegacyInstrSeqs(n) ==
    IF n = 0 THEN {<< >>}
    ELSE LET shorter == LegacyInstrSeqs(n - 1)
         IN  shorter \cup {i \o s : i \in LegacyInstructions, s \in shorter}

\* up to MaxLegacyInstr instructions and the terminating BRK
ShortPrograms == {s \o <<0>> : s \in LegacyInstrSeqs(MaxLegacyInstr)}

\* the longest program that fits in memory: TAX, then LDA #1 over and over, and
\* the BRK in the last byte, at 0xFFFF
LongProgram ==
    [i \in 1..MEM_SIZE |->
        IF i = 1 THEN 170
        ELSE IF i = MEM_SIZE THEN 0
        ELSE IF i % 2 = 0 THEN 169 ELSE 1]

\* programs interpret does not finish: INX; BRK and a TAX without BRK
OtherPrograms == {<<232, 0>>, <<170>>}

\* the caller loads a program at address 0 for run
LoadForRun ==
    /\ phase = "idle"
    /\ legacy.phase = "idle"
    /\ \E program \in ShortPrograms \cup OtherPrograms : Load(0, program)

\* the caller sets the registers and status, program_counter stays 0
PresetAtZero ==
    /\ phase = "loaded"
    /\ \E a \in RegAValues, x \in RegXValues, st \in StatusValues : Preset(a, x, st, 0)

\* after run, the caller gives interpret the bytes it loaded, on a CPU of main.rs
\* with the registers and status that run started from
InterpretSame ==
    /\ phase = "returned"
    /\ Interpret(calls[Len(calls)].bytes, at_run.a, at_run.x, at_run.status)

\* the caller gives a new CPU of main.rs the longest program
InterpretLong ==
    /\ phase = "idle"
    /\ Interpret(LongProgram, 0, 0, 0)

NextLegacy ==
    \/ LoadForRun
    \/ PresetAtZero
    \/ Run
    \/ LdaImmediate
    \/ Tax
    \/ Inx
    \/ Brk
    \/ InterpretSame
    \/ InterpretLong

SpecLegacy == Init /\ [][NextLegacy]_vars

----------------------------------------------------------------------------
(* The Ram alone: a caller that writes and loads, in any order *)

\* most calls a caller makes on one Ram
MaxCalls == 4

\* the bottom two addresses and the top address
RamAddrs == {0, 1, 65535}
RamData == {0, 7}
RamImages == {<< >>, <<5>>, <<0, 6>>, <<6, 0, 5>>}

RamWrite ==
    /\ Len(calls) < MaxCalls
    /\ \E addr \in RamAddrs, data \in RamData : Write(addr, data)

RamLoad ==
    /\ Len(calls) < MaxCalls
    /\ \E start_addr \in RamAddrs, program \in RamImages : Load(start_addr, program)

NextRam ==
    \/ RamWrite
    \/ RamLoad

SpecRam == Init /\ [][NextRam]_vars

----------------------------------------------------------------------------
(* Vocabulary of the properties, stated by arithmetic on the values rather  *)
(* than by the operators the model of the code uses                         *)

\* bit i of the byte v
BitSet(v, i) == (v \div (2 ^ i)) % 2 = 1

\* the signed value of a displacement byte
SignedByte(d) == IF d < 128 THEN d ELSE d - 256

\* the 16-bit address whose low byte is lo and whose high byte is hi
LittleEndian(lo, hi) == hi * 256 + lo

\* the absolute operand of the instruction last fetched
PrevLo == BusRead(prev.mem, (prev.pc + 1) % 65536)
PrevHi == BusRead(prev.mem, (prev.pc + 2) % 65536)
PrevTarget == LittleEndian(PrevLo, PrevHi)

\* the two memories agree everywhere but at the addresses in except
SameMemoryExcept(m1, m2, except) ==
    \A b \in ((DOMAIN m1) \cup (DOMAIN m2)) \ except : BusRead(m1, b) = BusRead(m2, b)

\* zeroed memory holding program at address 0
ImageAtZero(program) == CopyFromSlice(RamNew, 0, program)

\* run was called on a freshly constructed CPU
FreshAtRun == at_run.a = 0 /\ at_run.x = 0 /\ at_run.status = 0 /\ at_run.pc = 0

\* the status bits the flag-update rule must leave alone
OtherStatusBits == {0, 2, 3, 4, 5, 6}

----------------------------------------------------------------------------
(* C1 *)

\* the byte the last instruction wrote to a register, for the four instructions
\* that update flags
ResultWritten ==
    IF prev.opcode \in {OP_LDA_IMM, OP_LDA_ABS} THEN register_a ELSE register_x

\* C1: after LDA immediate, LDA absolute, TAX or INX has written the result r,
\* whatever the status was before, the Zero flag (bit 1) is set iff r = 0, the
\* Negative flag (bit 7) is set iff bit 7 of r is set, and status bits 0, 2, 3,
\* 4, 5 and 6 have the value they had before the instruction.
C1_FlagUpdateRule ==
    prev.opcode \in {OP_LDA_IMM, OP_LDA_ABS, OP_TAX, OP_INX} =>
        /\ BitSet(status, 1) <=> (ResultWritten = 0)
        /\ BitSet(status, 7) <=> (ResultWritten >= 128)
        /\ \A i \in OtherStatusBits : BitSet(status, i) <=> BitSet(prev.status, i)

\* INX from 0xFF with only the other six bits set: Zero becomes set, Negative
\* stays clear, the six bits stay set
C1_Witness ==
    /\ prev.opcode = OP_INX
    /\ prev.status = 125
    /\ register_x = 0
    /\ status = 127

----------------------------------------------------------------------------
(* C2, C3 *)

\* run was called on a fresh CPU with LDA #v; TAX; INX; BRK at address 0 of
\* zeroed memory
EndToEndRun(v) == FreshAtRun /\ at_run.mem = ImageAtZero(EndToEndProgram(v))

\* C2: for every immediate byte v, the run of the program LDA #v; TAX; INX; BRK
\* loaded at address 0 of zeroed memory on a fresh CPU does not fault, stays
\* within the program, and when it returns register_a = v and
\* register_x = (v + 1) mod 256.
C2_EndToEnd ==
    (phase \in {"running", "returned", "panicked"} /\ FreshAtRun) =>
        LET v == BusRead(at_run.mem, 1)
        IN  EndToEndRun(v) =>
                /\ phase # "panicked"
                /\ program_counter <= 4
                /\ phase = "returned" =>
                       /\ register_a = v
                       /\ register_x = (v + 1) % 256

\* the run of the integration test has returned: v = 0x10 gives A = 0x10, X = 0x11
C2_Witness ==
    /\ phase = "returned"
    /\ EndToEndRun(16)
    /\ register_a = 16
    /\ register_x = 17

\* C3: when run returns from [0xA9, 0x10, 0xAA, 0xE8, 0x00] loaded at address 0 on
\* a fresh CPU, program_counter = 5, one past the BRK byte.
C3_PcPastBrk ==
    (phase = "returned" /\ EndToEndRun(16)) => program_counter = 5

----------------------------------------------------------------------------
(* C4, C5 *)

\* the condition the 6502 gives each branch opcode, on a status byte
ConditionHolds(op, st) ==
    CASE op = 240 -> BitSet(st, 1)
      [] op = 208 -> ~BitSet(st, 1)
      [] op = 144 -> ~BitSet(st, 0)
      [] op = 176 -> BitSet(st, 0)
      [] op = 48  -> BitSet(st, 7)
      [] op = 16  -> ~BitSet(st, 7)

\* run was called at address 0 on a memory that holds [op, 0x02, 0x00] there and
\* a zero byte at address 4
BranchTestRun(op) ==
    /\ at_run.pc = 0
    /\ BusRead(at_run.mem, 0) = op
    /\ BusRead(at_run.mem, 1) = 2
    /\ BusRead(at_run.mem, 2) = 0
    /\ BusRead(at_run.mem, 4) = 0

\* C4: one step of a branch opcode at address p with operand byte d sets
\* program_counter (a 16-bit value) to p + 2 + signed(d) when the opcode's
\* condition holds on the status and to p + 2 when it does not: BEQ Zero set,
\* BNE Zero clear, BCC Carry clear, BCS Carry set, BMI Negative set, BPL Negative
\* clear.  The program [op, 0x02, 0x00] at address 0 returns with
\* program_counter = 4 when the condition holds and 2 when it does not.
C4_BranchConditions ==
    /\ prev.opcode \in {240, 208, 144, 176, 48, 16} =>
           program_counter =
               IF ConditionHolds(prev.opcode, prev.status)
               THEN (prev.pc + 2 + SignedByte(PrevLo)) % 65536
               ELSE (prev.pc + 2) % 65536
    /\ \A op \in {240, 208, 144, 176, 48, 16} :
           (phase = "returned" /\ BranchTestRun(op)) =>
               program_counter = IF ConditionHolds(op, at_run.status) THEN 4 ELSE 2

\* BCS at address 0 with Carry set and Zero, Negative clear has been taken over
\* +2, and the run has returned at address 4
C4_Witness ==
    /\ phase = "returned"
    /\ BranchTestRun(176)
    /\ at_run.status = 125
    /\ program_counter = 4

\* the last instruction was a branch, and it was taken
BranchTaken ==
    /\ prev.opcode \in {240, 208, 144, 176, 48, 16}
    /\ ConditionHolds(prev.opcode, prev.status)

\* C5: a taken branch at address p with displacement byte d sets program_counter
\* to ((p + 2) mod 2^16 + sext(d)) mod 2^16; the displacement applies to the
\* address after the two-byte instruction; a backward branch that stays at or
\* above address 0 moves program_counter down; and the step does not fault,
\* also when the sum leaves 0..0xFFFF.
C5_BranchOffset ==
    BranchTaken =>
        LET after == (prev.pc + 2) % 65536
            d == PrevLo
            sum == after + SignedByte(d)
        IN  /\ program_counter = sum % 65536
            /\ (d >= 128 /\ sum >= 0) => program_counter < after
            /\ (d < 128 /\ sum <= 65535) => program_counter >= after
            /\ phase = "running"
            /\ panic = NoPanic

\* a branch at address 0 taken over -128 has wrapped below 0 to 0xFF82
C5_Witness ==
    /\ BranchTaken
    /\ prev.pc = 0
    /\ PrevLo = 128
    /\ program_counter = 65410

----------------------------------------------------------------------------
(* C6, C7, C8 *)

\* C6: STA absolute (0x8D) at address p with operand bytes lo, hi stores
\* register_a at address (hi << 8) | lo, changes no other memory byte, leaves
\* register_a, register_x and status unchanged and advances program_counter by
\* 3; [0x8D, 0x34, 0x12, 0x00] run at address 0 with register_a = 0x42 returns
\* with memory[0x1234] = 0x42.
C6_StaAbsolute ==
    /\ prev.opcode = 141 =>
           /\ BusRead(mem, PrevTarget) = prev.a
           /\ SameMemoryExcept(mem, prev.mem, {PrevTarget})
           /\ register_a = prev.a
           /\ register_x = prev.x
           /\ status = prev.status
           /\ program_counter = (prev.pc + 3) % 65536
    /\ ( /\ phase = "returned"
         /\ at_run.pc = 0
         /\ at_run.a = 66
         /\ \A i \in 1..4 : BusRead(at_run.mem, i - 1) = <<141, 52, 18, 0>>[i] )
       => BusRead(mem, 4660) = 66

\* STA $1234 with register_a = 0x42 has changed memory[0x1234] from 0x99 to 0x42
C6_Witness ==
    /\ prev.opcode = 141
    /\ PrevTarget = 4660
    /\ BusRead(prev.mem, 4660) = 153
    /\ BusRead(mem, 4660) = 66

\* C7: LDA absolute (0xAD) at address p sets register_a to the byte stored at
\* the address (mem[p+2] << 8) | mem[p+1], sets Zero iff that byte is 0 and
\* Negative iff its bit 7 is set, advances program_counter by 3, and changes
\* neither memory nor register_x.
C7_LdaAbsolute ==
    prev.opcode = 173 =>
        LET value == BusRead(prev.mem, PrevTarget)
        IN  /\ register_a = value
            /\ BitSet(status, 1) <=> (value = 0)
            /\ BitSet(status, 7) <=> (value >= 128)
            /\ program_counter = (prev.pc + 3) % 65536
            /\ mem = prev.mem
            /\ register_x = prev.x

\* LDA $1234 (operand bytes 0x34, 0x12) has loaded the 0x99 stored at 0x1234,
\* where the byte at 0x3412 is 0, and Negative is set
C7_Witness ==
    /\ prev.opcode = 173
    /\ PrevLo = 52
    /\ PrevHi = 18
    /\ BusRead(prev.mem, 13330) = 0
    /\ register_a = 153
    /\ BitSet(status, 7)

\* run was called at address 0 on the program of test_jmp_absolute:
\* JMP $0005; LDA #$01; LDA #$42; BRK
JmpTestRun ==
    /\ at_run.pc = 0
    /\ \A i \in 1..8 : BusRead(at_run.mem, i - 1) = <<76, 5, 0, 169, 1, 169, 66, 0>>[i]

\* C8: JMP absolute (0x4C) at address p sets program_counter to exactly
\* (mem[p+2] << 8) | mem[p+1] and changes nothing else; in the run of
\* JMP $0005; LDA #$01; LDA #$42; BRK the instruction at address 3, between the
\* JMP and its target, is never fetched, and the run returns with
\* register_a = 0x42.
C8_JmpAbsolute ==
    /\ prev.opcode = 76 =>
           /\ program_counter = PrevTarget
           /\ register_a = prev.a
           /\ register_x = prev.x
           /\ status = prev.status
           /\ mem = prev.mem
    /\ (JmpTestRun /\ phase \in {"running", "returned", "panicked"}) =>
           /\ prev.opcode # -1 => prev.pc # 3
           /\ program_counter # 3
           /\ phase = "returned" => register_a = 66

\* the run of test_jmp_absolute has returned with register_a = 0x42
C8_Witness ==
    /\ JmpTestRun
    /\ phase = "returned"
    /\ register_a = 66
    /\ program_counter = 7

----------------------------------------------------------------------------
(* C9 *)

\* C9: INX (0xE8) sets register_x to (x + 1) mod 256 for every x and does not
\* fault; from 0xFF the result is 0 with Zero set, from 0x7F it is 0x80 with
\* Negative set; register_a and memory are unchanged and program_counter
\* advances by 1.
C9_InxWraps ==
    prev.opcode = 232 =>
        /\ register_x = (prev.x + 1) % 256
        /\ phase = "running"
        /\ panic = NoPanic
        /\ prev.x = 255 => (register_x = 0 /\ BitSet(status, 1))
        /\ prev.x = 127 => (register_x = 128 /\ BitSet(status, 7))
        /\ register_a = prev.a
        /\ mem = prev.mem
        /\ program_counter = (prev.pc + 1) % 65536

\* INX has wrapped register_x from 0xFF to 0 and set Zero, which was clear
C9_Witness ==
    /\ prev.opcode = 232
    /\ prev.x = 255
    /\ ~BitSet(prev.status, 1)
    /\ register_x = 0
    /\ BitSet(status, 1)

----------------------------------------------------------------------------
(* C10 *)

\* run has stopped on a byte that is no supported opcode
UnsupportedFetched ==
    /\ phase \in {"returned", "panicked", "faulted"}
    /\ prev.opcode \notin
           {169, 173, 170, 232, 141, 76, 240, 208, 144, 176, 48, 16, 0, -1}

\* C10: when run fetches at program_counter a byte outside the supported set,
\* execution stops in a fault that reports the opcode value and the faulting
\* address (the program counter at the fetch) to the caller, and register_a,
\* register_x, status, program_counter and memory are as before the fetch.
C10_UnsupportedOpcodeFault ==
    UnsupportedFetched =>
        /\ "opcode" \in DOMAIN panic
        /\ panic.opcode = prev.opcode
        /\ "address" \in DOMAIN panic
        /\ panic.address = prev.pc
        /\ register_a = prev.a
        /\ register_x = prev.x
        /\ status = prev.status
        /\ program_counter = prev.pc
        /\ mem = prev.mem

----------------------------------------------------------------------------
(* C11, C12 *)

\* the call c asks for bytes within the 64K address space
CallInRange(c) == c.addr + Len(c.bytes) <= 65536

\* the call c gives a byte for address a
Covers(c, a) == c.addr <= a /\ a < c.addr + Len(c.bytes)

\* the byte the most recent in-range call covering a gave it, or 0 if none did
ExpectedByte(log, a) ==
    LET hits == {i \in 1..Len(log) : Covers(log[i], a) /\ CallInRange(log[i])}
    IN  IF hits = {} THEN 0
        ELSE LET last == CHOOSE i \in hits : \A j \in hits : j <= i
             IN  log[last].bytes[a - log[last].addr + 1]

\* the calls before the last one
EarlierCalls == SubSeq(calls, 1, Len(calls) - 1)

\* the last call was a load
LastIsLoad == calls # << >> /\ calls[Len(calls)].op = "load"

\* C11: a load with start + len(bytes) > 0x10000 fails with an error the caller
\* can recover from, without a panic, and leaves every memory byte as the
\* earlier calls made it; a load with start + len(bytes) <= 0x10000 succeeds.
C11_OutOfRangeLoad ==
    LastIsLoad =>
        /\ phase # "panicked"
        /\ panic = NoPanic
        /\ ~CallInRange(calls[Len(calls)]) =>
               \A a \in (DOMAIN mem) \cup {0, 1, 2, 65535} :
                   BusRead(mem, a) = ExpectedByte(EarlierCalls, a)

\* C12: after any sequence of writes and in-range loads on a fresh Ram, read(a)
\* is the byte of the most recent write or load that covered a, or 0 if none
\* did; hence write(a, v) changes address a only and load(start, bytes) sets
\* start + i to bytes[i] and changes nothing outside [start, start + len).
C12_ReadWriteLoad ==
    (\A i \in 1..Len(calls) : CallInRange(calls[i])) =>
        \A a \in (DOMAIN mem) \cup {0, 1, 2, 3, 65534, 65535} :
            BusRead(mem, a) = ExpectedByte(calls, a)

\* write(1, 7), then load(0, [6, 0, 5]) which sets address 1 back to 0, then
\* write(0, 7) over the first byte of the image
C12_Witness ==
    /\ Len(calls) = 3
    /\ calls[1] = [op |-> "write", addr |-> 1, bytes |-> <<7>>]
    /\ calls[2] = [op |-> "load", addr |-> 0, bytes |-> <<6, 0, 5>>]
    /\ calls[3] = [op |-> "write", addr |-> 0, bytes |-> <<7>>]
    /\ BusRead(mem, 0) = 7
    /\ BusRead(mem, 1) = 0
    /\ BusRead(mem, 2) = 5

----------------------------------------------------------------------------
(* C13, C14, C15 *)

\* the byte v with bit 4 (Break) set
WithBreak(v) == IF BitSet(v, 4) THEN v ELSE v + 16

\* the stack page $0100-$01FF holds, pushed downwards from some stack pointer,
\* the high byte of word, its low byte, and then byte
PushedOnStack(m, word, byte) ==
    \E sp \in 2..255 :
        /\ BusRead(m, 256 + sp) = word \div 256
        /\ BusRead(m, 256 + sp - 1) = word % 256
        /\ BusRead(m, 256 + sp - 2) = byte

\* C13: BRK (0x00) at address p advances PC by 1, pushes that PC as a 16-bit
\* word, pushes status | 0b0001_0000, sets the Interrupt-disable flag (bit 2)
\* and sets program_counter to the little-endian word at 0xFFFE/0xFFFF, and
\* execution continues from there.
C13_BrkThroughIrqVector ==
    prev.opcode = 0 =>
        /\ phase = "running"
        /\ program_counter =
               LittleEndian(BusRead(prev.mem, 65534), BusRead(prev.mem, 65535))
        /\ BitSet(status, 2)
        /\ PushedOnStack(mem, (prev.pc + 1) % 65536, WithBreak(prev.status))

\* run was called at address 0 on JSR $0005; BRK; BRK; RTS
SubroutineRun ==
    /\ at_run.pc = 0
    /\ \A i \in 1..6 : BusRead(at_run.mem, i - 1) = SubroutineProgram[i]

\* C14: JSR (0x20) at address p with operand t transfers control to t, and RTS
\* (0x60) at t returns control to p + 3; neither opcode faults as unsupported.
C14_JsrRtsRoundTrip ==
    /\ prev.opcode = 32 => (phase = "running" /\ program_counter = PrevTarget)
    /\ prev.opcode = 96 => phase = "running"
    /\ (SubroutineRun /\ prev.opcode = 96) => program_counter = 3

\* C15: no opcode is fetched while an interrupt latch is set: a latch set by
\* trigger_nmi or trigger_irq is cleared and serviced at the head of the next
\* loop iteration, NMI first, before the opcode fetch.
C15_LatchesServiced ==
    prev.opcode # -1 => (~nmi_pending /\ ~irq_pending)

----------------------------------------------------------------------------
(* C16 *)

----------------------------------------------------------------------------
(* C19 *)

\* run has been called
InRun ==
    \/ phase \in {"running", "returned"}
    \/ phase = "panicked" /\ panic.kind = "not_implemented"

\* the address after the two-byte instruction last fetched
PrevNext == (prev.pc + 2) % 65536

\* C19: bits 0 (Carry), 2, 3, 4, 5 and 6 of status are the same at every point of
\* a run as when run was called, so each BCC/BCS is taken or not according to
\* the Carry bit the caller supplied.
C19_OtherBitsInvariant ==
    InRun =>
        /\ \A i \in OtherStatusBits : BitSet(status, i) <=> BitSet(at_run.status, i)
        /\ prev.opcode \in {144, 176} =>
               program_counter =
                   IF BitSet(at_run.status, 0) <=> (prev.opcode = 176)
                   THEN (PrevNext + SignedByte(PrevLo)) % 65536
                   ELSE PrevNext

\* INX; BCC +2 with Carry set by the caller: INX changed Zero/Negative, and the
\* BCC at address 1 is not taken
C19_Witness ==
    /\ phase = "running"
    /\ prev.opcode = 144
    /\ prev.pc = 1
    /\ BitSet(at_run.status, 0)
    /\ BitSet(status, 0)
    /\ status # at_run.status
    /\ program_counter = 3

----------------------------------------------------------------------------
(* C20 *)

\* C20: a byte of memory differs during or after run from its value when run was
\* called only if an STA absolute targeted it, and then it holds register_a as
\* of the last such STA; no other instruction changes memory; and an opcode
\* fetch reads the byte an earlier STA stored at that address.
C20_OnlyStaWrites ==
    InRun =>
        /\ \A b \in (DOMAIN mem) \cup (DOMAIN at_run.mem) \cup (DOMAIN stored) :
               BusRead(mem, b) = IF b \in DOMAIN stored
                                 THEN stored[b]
                                 ELSE BusRead(at_run.mem, b)
        /\ prev.opcode \notin {141, -1} => mem = prev.mem
        /\ (prev.opcode \notin {141, -1} /\ prev.pc \in DOMAIN stored)
               => prev.opcode = stored[prev.pc]

\* STA $0003 with register_a = 0x42 at address 0 of zeroed memory: the byte
\* stored at address 3 is the next opcode fetched
C20_Witness ==
    /\ phase = "panicked"
    /\ panic = [kind |-> "not_implemented", opcode |-> 66]
    /\ prev.pc = 3
    /\ BusRead(at_run.mem, 3) = 0
    /\ 3 \in DOMAIN stored
    /\ stored[3] = 66

----------------------------------------------------------------------------
(* C18 *)

\* the instruction last fetched has its opcode at $FFFE or $FFFF
FetchedAtTop == prev.opcode # -1 /\ prev.pc \in {65534, 65535}

\* its first and second operand bytes, by the address that holds them
TopLo == IF prev.pc = 65535 THEN BusRead(prev.mem, 0) ELSE BusRead(prev.mem, 65535)
TopHi == IF prev.pc = 65535 THEN BusRead(prev.mem, 1) ELSE BusRead(prev.mem, 0)

\* prev.pc + n modulo 2^16, for prev.pc at $FFFE or $FFFF
TopPlus(n) ==
    IF prev.pc + n >= 65536 THEN prev.pc + n - 65536 ELSE prev.pc + n

\* C18: an instruction whose opcode lies at 0xFFFF or 0xFFFE reads its operand
\* bytes from the addresses p+1 and p+2 taken modulo 2^16 (0x0000/0x0001 for
\* 0xFFFF; 0xFFFF/0x0000 for 0xFFFE) and leaves program_counter =
\* (p + length) mod 2^16, within 0..0xFFFF, without any fault.
C18_Wraparound ==
    /\ program_counter \in 0..65535
    /\ (FetchedAtTop /\ prev.opcode \in {170, 232}) =>
           (phase = "running" /\ program_counter = TopPlus(1))
    /\ (FetchedAtTop /\ prev.opcode = 169) =>
           /\ phase = "running"
           /\ register_a = TopLo
           /\ program_counter = TopPlus(2)
    /\ (FetchedAtTop /\ prev.opcode = 173) =>
           /\ phase = "running"
           /\ register_a = BusRead(prev.mem, LittleEndian(TopLo, TopHi))
           /\ program_counter = TopPlus(3)
    /\ (FetchedAtTop /\ prev.opcode = 141) =>
           /\ phase = "running"
           /\ BusRead(mem, LittleEndian(TopLo, TopHi)) = prev.a
           /\ program_counter = TopPlus(3)
    /\ (FetchedAtTop /\ prev.opcode = 76) =>
           (phase = "running" /\ program_counter = LittleEndian(TopLo, TopHi))
    /\ (FetchedAtTop /\ prev.opcode \in {240, 208, 144, 176, 48, 16}) =>
           /\ phase = "running"
           /\ program_counter =
                  IF ConditionHolds(prev.opcode, prev.status)
                  THEN (TopPlus(2) + SignedByte(TopLo)) % 65536
                  ELSE TopPlus(2)

\* STA $1234 with its opcode at $FFFF and its operands at $0000/$0001: the store
\* lands at $1234 and program_counter wraps to 2
C18_Witness ==
    /\ phase = "running"
    /\ prev.opcode = 141
    /\ prev.pc = 65535
    /\ BusRead(prev.mem, 0) = 52
    /\ BusRead(prev.mem, 1) = 18
    /\ BusRead(prev.mem, 4660) = 0
    /\ BusRead(mem, 4660) = 66
    /\ program_counter = 2

----------------------------------------------------------------------------
(* C17 *)

\* program is a sequence of LDA immediate, LDA absolute, TAX and INX instructions
RECURSIVE IsStraightLine(_)
IsStraightLine(program) ==
    IF program = << >> THEN TRUE
    ELSE CASE Head(program) \in {170, 232} -> IsStraightLine(Tail(program))
           [] Head(program) = 169 ->
                  Len(program) >= 2 /\ IsStraightLine(SubSeq(program, 3, Len(program)))
           [] Head(program) = 173 ->
                  Len(program) >= 3 /\ IsStraightLine(SubSeq(program, 4, Len(program)))
           [] OTHER -> FALSE

StraightLinePrograms == {program \in Programs : IsStraightLine(program)}

\* run was called at the first byte of a straight-line program that lies in
\* otherwise zeroed memory
StraightLineRun ==
    /\ InRun
    /\ \E program \in StraightLinePrograms :
           /\ program # << >>
           /\ at_run.pc + Len(program) <= 65536
           /\ \A i \in 1..Len(program) :
                  BusRead(at_run.mem, at_run.pc + i - 1) = program[i]
           /\ DOMAIN at_run.mem \subseteq at_run.pc..(at_run.pc + Len(program) - 1)

\* run returns exactly on a fetched 0x00, panics exactly on a fetched unsupported
\* byte, and otherwise has a next iteration
RunStopsOnBrkOrFault ==
    /\ phase = "returned" <=> (InRun /\ prev.opcode = 0)
    /\ (phase = "panicked" /\ panic.kind = "not_implemented")
           <=> (InRun /\ prev.opcode \notin
                    {169, 173, 170, 232, 141, 76, 240, 208, 144, 176, 48, 16, 0, -1})
    /\ phase = "running" => ENABLED Iteration

\* C17: run returns normally if and only if a byte 0x00 is fetched as an opcode,
\* stops with a fault if and only if an unsupported byte is fetched as an opcode,
\* and otherwise keeps executing; and any program consisting only of LDA
\* immediate, LDA absolute, TAX and INX followed by zeroed memory eventually
\* returns.
C17_RunTermination ==
    /\ []RunStopsOnBrkOrFault
    /\ StraightLineRun ~> (phase = "returned")

\* a reachable execution that never terminates: JMP whose target is its own
\* address has just been executed, and the same fetch comes next
C17_Witness ==
    /\ phase = "running"
    /\ prev.opcode = 76
    /\ program_counter = prev.pc
    /\ BusRead(mem, program_counter) = 76

\* a straight-line program of LDA immediate has returned
C17_StraightLineReturned ==
    /\ StraightLineRun
    /\ phase = "returned"
    /\ BusRead(at_run.mem, at_run.pc) = 169

----------------------------------------------------------------------------
(* C21 *)

\* C21: in every state of a run in which at least one LDA, TAX or INX has
\* executed, Zero is set iff the value written by the most recent of them was 0
\* and Negative is set iff that value had bit 7 set, so the two are never both
\* set; and STA, JMP, the branches and BRK leave both flags as they found them.
C21_FlagsDescribeLastResult ==
    /\ (InRun /\ last_result # -1) =>
           /\ BitSet(status, 1) <=> last_result = 0
           /\ BitSet(status, 7) <=> last_result >= 128
           /\ ~(BitSet(status, 1) /\ BitSet(status, 7))
    /\ (InRun /\ prev.opcode \in {141, 76, 240, 208, 144, 176, 48, 16, 0}) =>
           /\ BitSet(status, 1) <=> BitSet(prev.status, 1)
           /\ BitSet(status, 7) <=> BitSet(prev.status, 7)

\* INX; BCC +2 entered with every status bit set and register_x = 0xFF: INX wrote
\* 0, and after the BCC Zero is still set and Negative still clear
C21_Witness ==
    /\ phase = "running"
    /\ prev.opcode = 144
    /\ prev.pc = 1
    /\ at_run.status = 255
    /\ last_result = 0
    /\ status = 127

----------------------------------------------------------------------------
(* C22 *)

\* the program given to interpret is made only of LDA immediate, TAX and a
\* terminating BRK
LdaTaxBrkProgram ==
    legacy.program \in ShortPrograms \/ legacy.program = LongProgram

\* run and interpret have both returned, run having started at address 0 of
\* memory that held only the program's bytes, from the registers and status that
\* interpret started from
BothReturned ==
    /\ phase = "returned"
    /\ legacy.phase = "returned"
    /\ at_run.pc = 0
    /\ at_run.mem = ImageAtZero(legacy.program)

\* C22: for every program made only of LDA immediate, TAX and a terminating BRK,
\* interpret and run, started from equal register_a, register_x and status,
\* finish with equal register_a, register_x and status, and interpret stops one
\* past the BRK byte, where run stops on it.
C22_InterpretersAgree ==
    LdaTaxBrkProgram =>
        /\ legacy.phase # "panicked"
        /\ legacy.phase = "returned" =>
               legacy.program_counter = Len(legacy.program)
        /\ BothReturned =>
               /\ legacy.register_a = register_a
               /\ legacy.register_x = register_x
               /\ legacy.status = status
               /\ legacy.program_counter = program_counter + 1

\* on the programs that end before the last byte of memory the two do agree
ShortProgramsAgree ==
    legacy.program \in ShortPrograms =>
        /\ legacy.phase # "panicked"
        /\ BothReturned =>
               /\ legacy.register_a = register_a
               /\ legacy.register_x = register_x
               /\ legacy.status = status
               /\ legacy.program_counter = program_counter + 1

====
